---- MODULE Spec2Model ----
(***************************************************************************)
(* A model of the text_trees crate (src/src/lib.rs): the TreeNode          *)
(* construction API, the FormatCharacters / TreeFormatting configuration   *)
(* and the recursive line renderer write_tree_inner.                       *)
(*                                                                         *)
(* A Rust `char` is modelled by a one-element token: the character itself  *)
(* for ASCII ("+", "a", ...) and its code point name for the box-drawing   *)
(* characters ("U+250C", ...).  A String is a sequence of such tokens, so  *)
(* Len is the number of characters (display columns).  The line terminator *)
(* written by writeln! is the token NL.                                    *)
(***************************************************************************)
EXTENDS Integers, Sequences, FiniteSets, TLC

VARIABLES
    nodes,      \* the TreeNode values the caller owns, one per slot
    tree,       \* the slot of the node being rendered (&self), 0 when idle
    fmt,        \* the &TreeFormatting of the render in progress
    w,          \* the sink: every character written so far
    call,       \* the call stack of write_tree_inner, innermost frame last
    result,     \* what write_with_format returned: "none" while running
    log,        \* history: one record per output line begun
    failure,    \* history: the first failed write of the render, if any
    prev        \* the String of an earlier render the caller has kept

vars == <<nodes, tree, fmt, w, call, result, log, failure, prev>>

-----------------------------------------------------------------------------
(* Bounds *)

MaxNodes == 4        \* total number of tree nodes the caller builds
MaxTreeSize == 5     \* largest tree handed to the renderer ready-made
MaxLineCount == 2    \* largest horizontal_line_count tried
MaxSpaceCount == 2   \* largest label_space_count tried
MaxIter == 2         \* longest iterator passed to with_children / extend
NSlots == 2          \* number of TreeNode values the caller holds
MaxPartial == 2      \* most characters a failing write still gets through

-----------------------------------------------------------------------------
(* Characters and strings *)

NL == "\n"

\* Option<String>: None, or Some(s) holding the string s
None == <<>>
Some(s) == <<s>>

\* an empty slot (no TreeNode) and the absence of a render
NoNode == [none |-> TRUE]
NoFormat == [none |-> TRUE]

\* no write has failed; the caller has kept no earlier output
NoFailure == [none |-> TRUE]
NoPrev == [none |-> TRUE]

\* mutant: a count of 0 still gives one character
Mutant_char_repeat(c, n) == [i \in 1..(IF n = 0 THEN 1 ELSE n) |-> c]

\* char_repeat(c, n): the character c, n times
char_repeat(c, n) == [i \in 1..n |-> c]

-----------------------------------------------------------------------------
(* FormatCharacters *)

ascii ==
    [ down_facing_angle     |-> "+",
      down_facing_tee       |-> ",",
      vertical_line         |-> "|",
      horizontal_line       |-> "-",
      horizontal_space      |-> " ",
      horizontal_line_count |-> 2,
      right_facing_tee      |-> "+",
      right_facing_angle    |-> "'",
      label_space_char      |-> " ",
      label_space_count     |-> 1 ]

box_chars ==
    [ down_facing_angle     |-> "U+250C",
      down_facing_tee       |-> "U+252C",
      vertical_line         |-> "U+2502",
      horizontal_line       |-> "U+2500",
      horizontal_space      |-> " ",
      horizontal_line_count |-> 2,
      right_facing_tee      |-> "U+251C",
      right_facing_angle    |-> "U+2514",
      label_space_char      |-> " ",
      label_space_count     |-> 1 ]

FormatCharacters_horizontal_line(c) ==
    char_repeat(c.horizontal_line, c.horizontal_line_count)

FormatCharacters_horizontal_space(c) ==
    char_repeat(c.horizontal_space, c.horizontal_line_count)

FormatCharacters_label_space(c) ==
    char_repeat(c.label_space_char, c.label_space_count)

\* mutant: the run of horizontal_space is forgotten
Mutant_FormatCharacters_just_space(c) ==
    <<c.horizontal_space>>

FormatCharacters_just_space(c) ==
    <<c.horizontal_space>> \o FormatCharacters_horizontal_space(c)

\* mutant: the bar is followed by horizontal_line, not horizontal_space
Mutant_FormatCharacters_bar_and_space(c) ==
    <<c.vertical_line>> \o FormatCharacters_horizontal_line(c)

FormatCharacters_bar_and_space(c) ==
    <<c.vertical_line>> \o FormatCharacters_horizontal_space(c)

-----------------------------------------------------------------------------
(* TreeFormatting *)

dir_tree(chars) ==
    [ prefix_str |-> None, orientation |-> "TopDown",
      anchor |-> "Below", chars |-> chars ]

dir_tree_with_prefix(chars, prefix_str) ==
    [ prefix_str |-> Some(prefix_str), orientation |-> "TopDown",
      anchor |-> "Below", chars |-> chars ]

dir_tree_left(chars) ==
    [ prefix_str |-> None, orientation |-> "TopDown",
      anchor |-> "Left", chars |-> chars ]

dir_tree_left_with_prefix(chars, prefix_str) ==
    [ prefix_str |-> Some(prefix_str), orientation |-> "TopDown",
      anchor |-> "Left", chars |-> chars ]

\* mutant: no extra space under the Below anchor
Mutant_just_space(f) ==
    FormatCharacters_just_space(f.chars)

TreeFormatting_just_space(f) ==
    FormatCharacters_just_space(f.chars)
        \o (IF f.anchor = "Below" /\ f.chars.label_space_count > 0
            THEN <<f.chars.horizontal_space>>
            ELSE <<>>)

\* mutant: the extra space is written under either anchor
Mutant_bar_and_space(f) ==
    FormatCharacters_bar_and_space(f.chars)
        \o (IF f.chars.label_space_count > 0
            THEN <<f.chars.horizontal_space>>
            ELSE <<>>)

TreeFormatting_bar_and_space(f) ==
    FormatCharacters_bar_and_space(f.chars)
        \o (IF f.anchor = "Below" /\ f.chars.label_space_count > 0
            THEN <<f.chars.horizontal_space>>
            ELSE <<>>)

\* mutant: under the Left anchor a leaf gets no glyph in the anchor column
Mutant_tee(f, has_children) ==
    <<f.chars.right_facing_tee>>
        \o FormatCharacters_horizontal_line(f.chars)
        \o (IF f.anchor = "Below" THEN <<>>
            ELSE IF has_children THEN <<f.chars.down_facing_tee>>
            ELSE <<>>)
        \o FormatCharacters_label_space(f.chars)

TreeFormatting_tee(f, has_children) ==
    <<f.chars.right_facing_tee>>
        \o FormatCharacters_horizontal_line(f.chars)
        \o (IF f.anchor = "Below" THEN <<>>
            ELSE IF has_children THEN <<f.chars.down_facing_tee>>
            ELSE <<f.chars.horizontal_line>>)
        \o FormatCharacters_label_space(f.chars)

\* mutant: the two anchor glyphs are swapped
Mutant_angle(f, has_children) ==
    <<f.chars.right_facing_angle>>
        \o FormatCharacters_horizontal_line(f.chars)
        \o (IF f.anchor = "Below" THEN <<>>
            ELSE IF has_children THEN <<f.chars.horizontal_line>>
            ELSE <<f.chars.down_facing_tee>>)
        \o FormatCharacters_label_space(f.chars)

TreeFormatting_angle(f, has_children) ==
    <<f.chars.right_facing_angle>>
        \o FormatCharacters_horizontal_line(f.chars)
        \o (IF f.anchor = "Below" THEN <<>>
            ELSE IF has_children THEN <<f.chars.down_facing_tee>>
            ELSE <<f.chars.horizontal_line>>)
        \o FormatCharacters_label_space(f.chars)

-----------------------------------------------------------------------------
(* TreeNode *)

TreeNode_new(data) == [data |-> data, children |-> <<>>]

TreeNode_from(v) == [data |-> v, children |-> <<>>]

with_child_nodes(data, children) == [data |-> data, children |-> children]

with_children(data, children) ==
    with_child_nodes(data, [i \in 1..Len(children) |-> TreeNode_new(children[i])])

label(node) == node.data

has_children(node) == node.children # <<>>

\* mutant: the child is put in front of the children
Mutant_push_node(self, child) == [self EXCEPT !.children = <<child>> \o @]

push_node(self, child) == [self EXCEPT !.children = Append(@, child)]

push(self, data) == push_node(self, [data |-> data, children |-> <<>>])

\* mutant: the new leaves are put in front of the children already there
Mutant_extend(self, children) ==
    [self EXCEPT !.children =
        [i \in 1..Len(children) |-> TreeNode_new(children[i])] \o @]

extend(self, children) ==
    [self EXCEPT !.children =
        @ \o [i \in 1..Len(children) |-> TreeNode_new(children[i])]]

-----------------------------------------------------------------------------
(* The example tree and formattings of the crate documentation and tests *)

Str_root == <<"r", "o", "o", "t">>
Str_Uncle == <<"U", "n", "c", "l", "e">>
Str_Parent == <<"P", "a", "r", "e", "n", "t">>
Str_Aunt == <<"A", "u", "n", "t">>
Str_Child == <<"C", "h", "i", "l", "d">>
Str_Grand == <<"G", "r", "a", "n", "d">>
Str_Great == <<"G", "r", "e", "a", "t">>
Str_Child_1 == Str_Child \o <<" ", "1">>
Str_Child_2 == Str_Child \o <<" ", "2">>
Str_Child_3 == Str_Child \o <<" ", "3">>
Str_Grand_Child_1 == Str_Grand \o <<" ">> \o Str_Child_1
Str_Grand_Child_2 == Str_Grand \o <<" ">> \o Str_Child_2
Str_Great_Grand_Child_2 == Str_Great \o <<" ">> \o Str_Grand_Child_2
Str_Great_Great_Grand_Child_2 == Str_Great \o <<" ">> \o Str_Great_Grand_Child_2

make_tree ==
    with_child_nodes(Str_root, <<
        TreeNode_from(Str_Uncle),
        with_child_nodes(Str_Parent, <<
            with_children(Str_Child_1, << Str_Grand_Child_1 >>),
            with_child_nodes(Str_Child_2, <<
                with_child_nodes(Str_Grand_Child_2, <<
                    with_children(Str_Great_Grand_Child_2,
                                  << Str_Great_Great_Grand_Child_2 >>) >>) >>) >>),
        with_children(Str_Aunt, << Str_Child_3 >>) >>)

\* the custom characters of the documented spacing example
spacing_chars ==
    [ box_chars EXCEPT !.horizontal_space = "#",
                       !.horizontal_line_count = 5,
                       !.label_space_char = ".",
                       !.label_space_count = 2 ]

spacing_format == dir_tree_left_with_prefix(spacing_chars, <<".", ".", " ">>)

ExampleFormats ==
    { dir_tree(ascii), dir_tree(box_chars),
      dir_tree_left(ascii), dir_tree_left(box_chars),
      spacing_format }

-----------------------------------------------------------------------------
(* Inputs *)

Slots == 1..NSlots

Labels == { <<"a">>, <<"b", "c">> }

\* the finite iterators of data items handed to with_children / extend
Iters == UNION { [1..n -> Labels] : n \in 0..MaxIter }

Prefixes == { None, Some(<<">", ">", " ">>) }

\* the kinds of std::io::Error a sink may answer a write with
Errors == { "WriteZero", "BrokenPipe" }

\* the formattings the four factory functions give for the two presets
PresetFormats ==
    UNION { { dir_tree(c), dir_tree_left(c),
              dir_tree_with_prefix(c, <<">", ">", " ">>),
              dir_tree_left_with_prefix(c, <<">", ">", " ">>) } :
            c \in {ascii, box_chars} }

\* the presets with every field combination of anchor, prefix and counts
Formats ==
    { [ prefix_str  |-> p,
        orientation |-> "TopDown",
        anchor      |-> a,
        chars       |-> [c EXCEPT !.horizontal_line_count = h,
                                  !.label_space_count = l] ] :
        p \in Prefixes, a \in {"Below", "Left"}, c \in {ascii, box_chars},
        h \in 0..MaxLineCount, l \in 0..MaxSpaceCount }

RECURSIVE Size(_)
\* number of nodes of the tree rooted at node
Size(node) ==
    IF node = NoNode THEN 0
    ELSE LET RECURSIVE Sum(_)
             Sum(i) == IF i = 0 THEN 0
                       ELSE Size(node.children[i]) + Sum(i - 1)
         IN 1 + Sum(Len(node.children))

RECURSIVE Total(_)
Total(s) == IF s = 0 THEN 0 ELSE Size(nodes[s]) + Total(s - 1)

\* number of nodes the caller owns
Owned == Total(NSlots)

RECURSIVE NodeAt(_, _)
\* the descendant of node reached by following the child indices of path
NodeAt(node, path) ==
    IF path = <<>> THEN node
    ELSE NodeAt(node.children[Head(path)], Tail(path))

Idle == call = <<>> /\ fmt = NoFormat

-----------------------------------------------------------------------------
(* Construction: the caller builds trees *)

Init ==
    /\ nodes = [s \in Slots |-> NoNode]
    /\ tree = 0
    /\ fmt = NoFormat
    /\ w = <<>>
    /\ call = <<>>
    /\ result = "none"
    /\ log = <<>>
    /\ failure = NoFailure
    /\ prev = NoPrev

New(s, data) ==
    /\ Idle /\ nodes[s] = NoNode /\ Owned + 1 <= MaxNodes
    /\ nodes' = [nodes EXCEPT ![s] = TreeNode_new(data)]
    /\ UNCHANGED <<tree, fmt, w, call, result, log, failure, prev>>

From(s, v) ==
    /\ Idle /\ nodes[s] = NoNode /\ Owned + 1 <= MaxNodes
    /\ nodes' = [nodes EXCEPT ![s] = TreeNode_from(v)]
    /\ UNCHANGED <<tree, fmt, w, call, result, log, failure, prev>>

WithChildren(s, data, children) ==
    /\ Idle /\ nodes[s] = NoNode /\ Owned + 1 + Len(children) <= MaxNodes
    /\ nodes' = [nodes EXCEPT ![s] = with_children(data, children)]
    /\ UNCHANGED <<tree, fmt, w, call, result, log, failure, prev>>

\* the pre-built child nodes are moved out of the slots ts into the new node
WithChildNodes(s, data, ts) ==
    /\ Idle /\ nodes[s] = NoNode /\ Owned + 1 <= MaxNodes
    /\ \A i \in 1..Len(ts) : ts[i] # s /\ nodes[ts[i]] # NoNode
    /\ \A i, j \in 1..Len(ts) : ts[i] = ts[j] => i = j
    /\ nodes' = [t \in Slots |->
                   IF t = s
                   THEN with_child_nodes(data, [i \in 1..Len(ts) |-> nodes[ts[i]]])
                   ELSE IF \E i \in 1..Len(ts) : ts[i] = t THEN NoNode
                   ELSE nodes[t]]
    /\ UNCHANGED <<tree, fmt, w, call, result, log, failure, prev>>

Push(s, data) ==
    /\ Idle /\ nodes[s] # NoNode /\ Owned + 1 <= MaxNodes
    /\ nodes' = [nodes EXCEPT ![s] = push(@, data)]
    /\ UNCHANGED <<tree, fmt, w, call, result, log, failure, prev>>

\* the pre-built child is moved out of slot t
PushNode(s, t) ==
    /\ Idle /\ s # t /\ nodes[s] # NoNode /\ nodes[t] # NoNode
    /\ nodes' = [nodes EXCEPT ![s] = push_node(@, nodes[t]), ![t] = NoNode]
    /\ UNCHANGED <<tree, fmt, w, call, result, log, failure, prev>>

Extend(s, children) ==
    /\ Idle /\ nodes[s] # NoNode /\ Owned + Len(children) <= MaxNodes
    /\ nodes' = [nodes EXCEPT ![s] = extend(@, children)]
    /\ UNCHANGED <<tree, fmt, w, call, result, log, failure, prev>>

-----------------------------------------------------------------------------
(* Rendering: write_with_format and the steps of write_tree_inner *)

\* mutant: the callee is handed the child indices, not the remaining counts
Mutant_Frame(node, remaining_children_stack, path) ==
    [ node  |-> node,
      remaining_children_stack |-> path,
      pc    |-> "prefix",
      row   |-> 0,
      d     |-> 0,
      next  |-> 1,
      e     |-> "none",
      path  |-> path ]

Frame(node, remaining_children_stack, path) ==
    [ node  |-> node,
      remaining_children_stack |-> remaining_children_stack,
      pc    |-> "prefix",
      row   |-> 0,
      d     |-> 0,
      next  |-> 1,
      e     |-> "none",
      path  |-> path ]

Top == call[Len(call)]

SetTop(f) == [call EXCEPT ![Len(call)] = f]

\* the column the next character goes to, on the line being written
Col == Len(w) - log[Len(log)].start

\* the glyph group write_tree_inner writes for one row of the stack
\* mutant: the bar is drawn where the level has ended, and left out where
\* it has not
Mutant_RowGlyph(f, remaining_children, is_last_row, node) ==
    CASE remaining_children = 1 /\ is_last_row  -> TreeFormatting_angle(f, has_children(node))
      [] remaining_children = 1 /\ ~is_last_row -> TreeFormatting_bar_and_space(f)
      [] remaining_children # 1 /\ is_last_row  -> TreeFormatting_tee(f, has_children(node))
      [] OTHER                                  -> TreeFormatting_just_space(f)

RowGlyph(f, remaining_children, is_last_row, node) ==
    CASE remaining_children = 1 /\ is_last_row  -> TreeFormatting_angle(f, has_children(node))
      [] remaining_children = 1 /\ ~is_last_row -> TreeFormatting_just_space(f)
      [] remaining_children # 1 /\ is_last_row  -> TreeFormatting_tee(f, has_children(node))
      [] OTHER                                  -> TreeFormatting_bar_and_space(f)

\* mutant: the buffer is reused without being cleared
Mutant_WriteWithFormat(s, format) ==
    /\ Idle /\ nodes[s] # NoNode
    /\ tree' = s
    /\ fmt' = format
    /\ w' = IF prev # NoPrev THEN prev.out ELSE <<>>
    /\ call' = << Frame(nodes[s], <<>>, <<>>) >>
    /\ result' = "none"
    /\ log' = <<>>
    /\ failure' = NoFailure
    /\ UNCHANGED <<nodes, prev>>

\* write_with_format, as called by to_string_with_format on a fresh buffer
WriteWithFormat(s, format) ==
    /\ Idle /\ nodes[s] # NoNode
    /\ tree' = s
    /\ fmt' = format
    /\ w' = <<>>
    /\ call' = << Frame(nodes[s], <<>>, <<>>) >>
    /\ result' = "none"
    /\ log' = <<>>
    /\ failure' = NoFailure
    /\ UNCHANGED <<nodes, prev>>

\* mutant: the prefix is written on the root line only
Mutant_WritePrefix ==
    /\ call # <<>> /\ Top.pc = "prefix"
    /\ w' = IF fmt.prefix_str # None /\ Top.remaining_children_stack = <<>>
            THEN w \o fmt.prefix_str[1] ELSE w
    /\ log' = Append(log, [ node   |-> Top.node,
                            path   |-> Top.path,
                            stack  |-> Top.remaining_children_stack,
                            start  |-> Len(w),
                            glyphs |-> Len(w') - Len(w),
                            rows   |-> <<>>,
                            label  |-> -1 ])
    /\ call' = SetTop([Top EXCEPT !.pc = "anchor"])
    /\ UNCHANGED <<nodes, tree, fmt, result, failure, prev>>

WritePrefix ==
    /\ call # <<>> /\ Top.pc = "prefix"
    /\ w' = IF fmt.prefix_str # None THEN w \o fmt.prefix_str[1] ELSE w
    /\ log' = Append(log, [ node   |-> Top.node,
                            path   |-> Top.path,
                            stack  |-> Top.remaining_children_stack,
                            start  |-> Len(w),
                            glyphs |-> Len(w') - Len(w),
                            rows   |-> <<>>,
                            label  |-> -1 ])
    /\ call' = SetTop([Top EXCEPT !.pc = "anchor"])
    /\ UNCHANGED <<nodes, tree, fmt, result, failure, prev>>

\* mutant: the label spacing after down_facing_angle is forgotten
Mutant_WriteAnchor ==
    /\ call # <<>> /\ Top.pc = "anchor"
    /\ w' = IF ~(fmt.anchor = "Below") /\ Top.remaining_children_stack = <<>>
            THEN w \o <<fmt.chars.down_facing_angle>>
            ELSE w
    /\ call' = SetTop([Top EXCEPT !.pc = "rows", !.row = 0])
    /\ UNCHANGED <<nodes, tree, fmt, result, log, failure, prev>>

WriteAnchor ==
    /\ call # <<>> /\ Top.pc = "anchor"
    /\ w' = IF ~(fmt.anchor = "Below") /\ Top.remaining_children_stack = <<>>
            THEN w \o <<fmt.chars.down_facing_angle>>
                   \o char_repeat(fmt.chars.label_space_char,
                                  fmt.chars.label_space_count)
            ELSE w
    /\ call' = SetTop([Top EXCEPT !.pc = "rows", !.row = 0])
    /\ UNCHANGED <<nodes, tree, fmt, result, log, failure, prev>>

WriteRow ==
    /\ call # <<>> /\ Top.pc = "rows"
    /\ Top.row < Len(Top.remaining_children_stack)
    /\ LET stack_depth == Len(Top.remaining_children_stack)
           row == Top.row
       IN w' = w \o RowGlyph(fmt, Top.remaining_children_stack[row + 1],
                             row = stack_depth - 1, Top.node)
    /\ log' = [log EXCEPT ![Len(log)].rows = Append(@, Col)]
    /\ call' = SetTop([Top EXCEPT !.row = @ + 1])
    /\ UNCHANGED <<nodes, tree, fmt, result, failure, prev>>

\* mutant: the label of a leaf is written without the line terminator
Mutant_WriteLabel ==
    /\ call # <<>> /\ Top.pc = "rows"
    /\ Top.row = Len(Top.remaining_children_stack)
    /\ w' = IF has_children(Top.node) THEN w \o label(Top.node) \o <<NL>>
            ELSE w \o label(Top.node)
    /\ log' = [log EXCEPT ![Len(log)].label = Col]
    /\ call' = SetTop([Top EXCEPT !.pc = "children",
                                  !.d = IF has_children(Top.node)
                                        THEN Len(Top.node.children) ELSE @,
                                  !.next = 1])
    /\ UNCHANGED <<nodes, tree, fmt, result, failure, prev>>

WriteLabel ==
    /\ call # <<>> /\ Top.pc = "rows"
    /\ Top.row = Len(Top.remaining_children_stack)
    /\ w' = w \o label(Top.node) \o <<NL>>
    /\ log' = [log EXCEPT ![Len(log)].label = Col]
    /\ call' = SetTop([Top EXCEPT !.pc = "children",
                                  !.d = IF has_children(Top.node)
                                        THEN Len(Top.node.children) ELSE @,
                                  !.next = 1])
    /\ UNCHANGED <<nodes, tree, fmt, result, failure, prev>>

\* mutant: the children are visited from the last to the first
Mutant_CallChild_Reversed ==
    /\ call # <<>> /\ Top.pc = "children"
    /\ Top.next <= Len(Top.node.children)
    /\ LET new_child_stack == Append(Top.remaining_children_stack, Top.d)
           k == Len(Top.node.children) - Top.next + 1
       IN call' = Append(SetTop([Top EXCEPT !.d = @ - 1, !.next = @ + 1]),
                         Frame(Top.node.children[k], new_child_stack,
                               Append(Top.path, k)))
    /\ UNCHANGED <<nodes, tree, fmt, w, result, log, failure, prev>>

\* mutant: d is decremented before it is pushed
Mutant_CallChild ==
    /\ call # <<>> /\ Top.pc = "children"
    /\ Top.next <= Len(Top.node.children)
    /\ LET new_child_stack == Append(Top.remaining_children_stack, Top.d - 1)
       IN call' = Append(SetTop([Top EXCEPT !.d = @ - 1, !.next = @ + 1]),
                         Frame(Top.node.children[Top.next], new_child_stack,
                               Append(Top.path, Top.next)))
    /\ UNCHANGED <<nodes, tree, fmt, w, result, log, failure, prev>>

CallChild ==
    /\ call # <<>> /\ Top.pc = "children"
    /\ Top.next <= Len(Top.node.children)
    /\ LET new_child_stack == Append(Top.remaining_children_stack, Top.d)
       IN call' = Append(SetTop([Top EXCEPT !.d = @ - 1, !.next = @ + 1]),
                         Frame(Top.node.children[Top.next], new_child_stack,
                               Append(Top.path, Top.next)))
    /\ UNCHANGED <<nodes, tree, fmt, w, result, log, failure, prev>>

\* mutant: the loop over the children is left after the first child
Mutant_Return ==
    /\ call # <<>> /\ Top.pc = "children"
    /\ Top.next > Len(Top.node.children) \/ Top.next > 1
    /\ call' = SubSeq(call, 1, Len(call) - 1)
    /\ result' = IF Len(call) = 1 THEN "ok" ELSE result
    /\ UNCHANGED <<nodes, tree, fmt, w, log, failure, prev>>

Return ==
    /\ call # <<>> /\ Top.pc = "children"
    /\ Top.next > Len(Top.node.children)
    /\ call' = SubSeq(call, 1, Len(call) - 1)
    /\ result' = IF Len(call) = 1 THEN "ok" ELSE result
    /\ UNCHANGED <<nodes, tree, fmt, w, log, failure, prev>>

\* to_string_with_format hands the buffer to the caller, who is done with it
Finish ==
    /\ call = <<>> /\ result # "none"
    /\ tree' = 0 /\ fmt' = NoFormat
    /\ w' = <<>> /\ log' = <<>> /\ result' = "none"
    /\ failure' = NoFailure
    /\ UNCHANGED <<nodes, call, prev>>

Render ==
    \/ WritePrefix
    \/ WriteAnchor
    \/ WriteRow
    \/ WriteLabel
    \/ CallChild
    \/ Return
    \/ Finish

Next ==
    \/ \E s \in Slots, d \in Labels : New(s, d)
    \/ \E s \in Slots, d \in Labels : From(s, d)
    \/ \E s \in Slots, d \in Labels, xs \in Iters : WithChildren(s, d, xs)
    \/ \E s \in Slots, d \in Labels :
         \E ts \in UNION { [1..n -> Slots] : n \in 0..(NSlots - 1) } :
            WithChildNodes(s, d, ts)
    \/ \E s \in Slots, d \in Labels : Push(s, d)
    \/ \E s, t \in Slots : PushNode(s, t)
    \/ \E s \in Slots, xs \in Iters : Extend(s, xs)
    \/ \E s \in Slots, f \in PresetFormats : WriteWithFormat(s, f)
    \/ Render

Spec == Init /\ [][Next]_vars

\* the caller only builds trees: the construction API without any rendering
NextBuild ==
    \/ \E s \in Slots, d \in Labels : New(s, d)
    \/ \E s \in Slots, d \in Labels : From(s, d)
    \/ \E s \in Slots, d \in Labels, xs \in Iters : WithChildren(s, d, xs)
    \/ \E s \in Slots, d \in Labels :
         \E ts \in UNION { [1..n -> Slots] : n \in 0..(NSlots - 1) } :
            WithChildNodes(s, d, ts)
    \/ \E s \in Slots, d \in Labels : Push(s, d)
    \/ \E s, t \in Slots : PushNode(s, t)
    \/ \E s \in Slots, xs \in Iters : Extend(s, xs)

SpecBuild == Init /\ [][NextBuild]_vars

-----------------------------------------------------------------------------
(* Rendering of ready-made trees under every formatting *)

\* the data of a ready-made node: leaves and inner nodes differ in length
DataFor(children) == IF children = <<>> THEN <<"a">> ELSE <<"b", "c">>

RECURSIVE Forests(_)
\* every sequence of trees with n nodes in all
Forests(n) ==
    IF n = 0 THEN { <<>> }
    ELSE UNION { { <<with_child_nodes(DataFor(kids), kids)>> \o rest :
                     kids \in Forests(k - 1), rest \in Forests(n - k) } :
                 k \in 1..n }

\* every tree shape of at most MaxTreeSize nodes
Trees ==
    UNION { { f[1] : f \in { g \in Forests(n) : Len(g) = 1 } } :
            n \in 1..MaxTreeSize }

InitRender ==
    /\ \E t \in Trees \cup {make_tree} :
          nodes = [s \in Slots |-> IF s = 1 THEN t ELSE NoNode]
    /\ tree = 0
    /\ fmt = NoFormat
    /\ w = <<>>
    /\ call = <<>>
    /\ result = "none"
    /\ log = <<>>
    /\ failure = NoFailure
    /\ prev = NoPrev

NextRender ==
    \/ \E f \in Formats \cup ExampleFormats : WriteWithFormat(1, f)
    \/ Render

SpecRender == InitRender /\ [][NextRender]_vars

\* the caller keeps the String to_string_with_format returned, to compare
\* it with that of a later render
Keep ==
    /\ call = <<>> /\ result = "ok" /\ prev = NoPrev
    /\ prev' = [slot |-> tree, node |-> nodes[tree], fmt |-> fmt, out |-> w]
    /\ tree' = 0 /\ fmt' = NoFormat
    /\ w' = <<>> /\ log' = <<>> /\ result' = "none"
    /\ UNCHANGED <<nodes, call, failure>>

\* the same tree rendered again with the same formatting
NextTwice ==
    \/ \E f \in Formats \cup ExampleFormats :
          /\ prev # NoPrev => f = prev.fmt
          /\ WriteWithFormat(1, f)
    \/ Render
    \/ Keep

SpecTwice == InitRender /\ [][NextTwice]_vars

\* the render runs to its end once called: the call is synchronous, so each
\* step of write_tree_inner that can be taken is taken
NextLive ==
    \/ \E f \in PresetFormats : WriteWithFormat(1, f)
    \/ Render

SpecLive == InitRender /\ [][NextLive]_vars /\ WF_vars(Render)

-----------------------------------------------------------------------------
(* Rendering to a sink that may fail: write_with_format on any io::Write *)

\* the text the next write!/writeln! of the innermost call hands the sink,
\* empty where that call has no write left to make
PendingWrite ==
    IF call = <<>> THEN <<>>
    ELSE CASE Top.pc = "prefix" ->
                IF fmt.prefix_str # None THEN fmt.prefix_str[1] ELSE <<>>
           [] Top.pc = "anchor" ->
                IF ~(fmt.anchor = "Below") /\ Top.remaining_children_stack = <<>>
                THEN <<fmt.chars.down_facing_angle>>
                       \o char_repeat(fmt.chars.label_space_char,
                                      fmt.chars.label_space_count)
                ELSE <<>>
           [] Top.pc = "rows" ->
                IF Top.row < Len(Top.remaining_children_stack)
                THEN RowGlyph(fmt, Top.remaining_children_stack[Top.row + 1],
                              Top.row = Len(Top.remaining_children_stack) - 1,
                              Top.node)
                ELSE label(Top.node) \o <<NL>>
           [] OTHER -> <<>>

\* the sink answers the write with the error e after taking k characters
\* of it; the `?` makes the call return Err(e)
FailWrite(e, k) ==
    /\ call # <<>> /\ PendingWrite # <<>> /\ k < Len(PendingWrite)
    /\ w' = w \o SubSeq(PendingWrite, 1, k)
    /\ call' = SetTop([Top EXCEPT !.pc = "err", !.e = e])
    /\ failure' = IF failure = NoFailure
                  THEN [err |-> e, before |-> w, after |-> w']
                  ELSE failure
    /\ UNCHANGED <<nodes, tree, fmt, result, log, prev>>

\* mutant: the caller drops the child's Err and goes on with the next child
Mutant_ReturnErr ==
    /\ call # <<>> /\ Top.pc = "err"
    /\ call' = SubSeq(call, 1, Len(call) - 1)
    /\ result' = IF Len(call) = 1 THEN Top.e ELSE result
    /\ UNCHANGED <<nodes, tree, fmt, w, log, failure, prev>>

\* a call returns Err(e): to its caller, whose `?` returns it in turn, or
\* out of write_with_format
ReturnErr ==
    /\ call # <<>> /\ Top.pc = "err"
    /\ call' = IF Len(call) = 1 THEN <<>>
               ELSE [SubSeq(call, 1, Len(call) - 1) EXCEPT
                        ![Len(call) - 1].pc = "err",
                        ![Len(call) - 1].e = Top.e]
    /\ result' = IF Len(call) = 1 THEN Top.e ELSE result
    /\ UNCHANGED <<nodes, tree, fmt, w, log, failure, prev>>

InitSink ==
    /\ \E t \in Trees :
          nodes = [s \in Slots |-> IF s = 1 THEN t ELSE NoNode]
    /\ tree = 0
    /\ fmt = NoFormat
    /\ w = <<>>
    /\ call = <<>>
    /\ result = "none"
    /\ log = <<>>
    /\ failure = NoFailure
    /\ prev = NoPrev

\* the formattings tried on a failing sink
SinkFormats == PresetFormats \cup {spacing_format}

NextSink ==
    \/ \E f \in SinkFormats : WriteWithFormat(1, f)
    \/ Render
    \/ \E e \in Errors, k \in 0..MaxPartial : FailWrite(e, k)
    \/ ReturnErr

SpecSink == InitSink /\ [][NextSink]_vars

TypeOK ==
    /\ result \in {"none", "ok"} \cup Errors
    /\ \A i \in 1..Len(call) :
          call[i].pc \in {"prefix", "anchor", "rows", "children", "err"}

-----------------------------------------------------------------------------
(* Reading the output back *)

Rendering == fmt # NoFormat

\* the node write_with_format was called on
Root == nodes[tree]

LineIds == 1..Len(log)

\* the label of line i has been written (the line is complete)
Done(i) == log[i].label >= 0

Depth(i) == Len(log[i].path)

\* the character at column c (from 0) of line i
CharAt(i, c) == w[log[i].start + c + 1]

\* the characters of line i in columns from..(to - 1)
Cols(i, from, to) == SubSeq(w, log[i].start + from + 1, log[i].start + to)

\* the column where the glyph group of row r (from 1) of line i ends
RowEnd(i, r) ==
    IF r < Len(log[i].rows) THEN log[i].rows[r + 1] ELSE log[i].label

RowWidth(i, r) == RowEnd(i, r) - log[i].rows[r]

PrefixLen == IF fmt.prefix_str = None THEN 0 ELSE Len(fmt.prefix_str[1])

IsLeft == fmt.anchor = "Left"
IsBelow == fmt.anchor = "Below"

HLC == fmt.chars.horizontal_line_count
LSC == fmt.chars.label_space_count

\* the widths the code gives a continuation group and a connector group
ContinuationWidth == 1 + HLC + (IF IsBelow /\ LSC > 0 THEN 1 ELSE 0)
ConnectorWidth == 1 + HLC + LSC + (IF IsLeft THEN 1 ELSE 0)

\* the line of the parent of the node of line i
ParentLine(i) ==
    CHOOSE j \in LineIds :
        log[j].path = SubSeq(log[i].path, 1, Len(log[i].path) - 1)

-----------------------------------------------------------------------------
(* C1 *)

GlyphWidths(f) ==
    { Len(TreeFormatting_just_space(f)), Len(TreeFormatting_bar_and_space(f)) }
    \cup { Len(TreeFormatting_tee(f, hc)) : hc \in BOOLEAN }
    \cup { Len(TreeFormatting_angle(f, hc)) : hc \in BOOLEAN }

\* C1 as stated: for the formatting of every render, the four glyph groups
\* (angle, just_space, tee, bar_and_space), for either value of has_children,
\* all have the same number of characters.
C1_Original ==
    \A i \in LineIds : (Done(i) /\ Len(log[i].rows) >= 2) =>
        /\ Cardinality(GlyphWidths(fmt)) = 1
        /\ \A r \in 1..Len(log[i].rows) : RowWidth(i, r) = RowWidth(i, 1)

\* C1 amended: the two continuation groups (just_space, bar_and_space) have
\* one width, 1 + horizontal_line_count, plus 1 when the anchor is Below and
\* label_space_count > 0; the two connector groups (tee, angle), for either
\* value of has_children, have one width, 1 + horizontal_line_count +
\* label_space_count, plus 1 when the anchor is Left; the four widths are all
\* equal exactly when the anchor is Below and label_space_count <= 1. Every
\* group written to the sink has the width of its kind.
C1_Amended ==
    Rendering =>
        /\ Len(TreeFormatting_just_space(fmt)) = ContinuationWidth
        /\ Len(TreeFormatting_bar_and_space(fmt)) = ContinuationWidth
        /\ \A hc \in BOOLEAN :
              /\ Len(TreeFormatting_tee(fmt, hc)) = ConnectorWidth
              /\ Len(TreeFormatting_angle(fmt, hc)) = ConnectorWidth
        /\ (Cardinality(GlyphWidths(fmt)) = 1) <=> (IsBelow /\ LSC <= 1)
        /\ \A i \in LineIds : Done(i) =>
              \A r \in 1..Len(log[i].rows) :
                 RowWidth(i, r) = IF r = Len(log[i].rows)
                                  THEN ConnectorWidth ELSE ContinuationWidth

\* a finished line with a bar continuation, a blank continuation and a
\* connector, under the Left anchor
C1_Witness ==
    /\ Rendering /\ IsLeft /\ LSC = 2
    /\ \E i \in LineIds :
          /\ Done(i) /\ Len(log[i].rows) = 3
          /\ CharAt(i, log[i].rows[1]) = fmt.chars.vertical_line
          /\ CharAt(i, log[i].rows[2]) = fmt.chars.horizontal_space

-----------------------------------------------------------------------------
(* C2 *)

\* the column C2 gives the label of a node at depth d, the root's extra
\* leading group counted on every line
ClaimedColumn(d) ==
    d * (HLC + LSC + 1) + PrefixLen + (IF IsLeft THEN 1 + LSC ELSE 0)

\* the same, the root's extra leading group counted on the root line only
ClaimedColumnRootOnly(d) ==
    d * (HLC + LSC + 1) + PrefixLen + (IF IsLeft /\ d = 0 THEN 1 + LSC ELSE 0)

\* C2 as stated: the label of a node at depth d starts at column
\* d * (horizontal_line_count + label_space_count + 1) + length(prefix_str),
\* plus the width of the root's extra leading group when the anchor is Left
\* (under either reading of where that extra width applies).
C2_Original ==
    \/ \A i \in LineIds : Done(i) => log[i].label = ClaimedColumn(Depth(i))
    \/ \A i \in LineIds : Done(i) => log[i].label = ClaimedColumnRootOnly(Depth(i))

\* the column the code gives the label of a node at depth d
LabelColumn(d) ==
    PrefixLen +
    (IF d = 0 THEN (IF IsLeft THEN 1 + LSC ELSE 0)
     ELSE (d - 1) * ContinuationWidth + ConnectorWidth)

\* C2 amended: the label of the root starts at column length(prefix_str),
\* plus 1 + label_space_count when the anchor is Left; the label of a node at
\* depth d >= 1 starts at column length(prefix_str) + (d - 1) * C + K, with C
\* the continuation width and K the connector width of C1 amended.  This is
\* d * (horizontal_line_count + label_space_count + 1) + length(prefix_str)
\* when the anchor is Below and label_space_count <= 1 or d <= 1.
C2_Amended ==
    \A i \in LineIds : Done(i) =>
        /\ log[i].label = LabelColumn(Depth(i))
        /\ (IsBelow /\ (LSC <= 1 \/ Depth(i) <= 1)) =>
              log[i].label = Depth(i) * (HLC + LSC + 1) + PrefixLen

\* a finished line of a node at depth 3 under a prefix
C2_Witness ==
    /\ Rendering /\ PrefixLen > 0 /\ HLC > 0 /\ LSC > 0
    /\ \E i \in LineIds : Done(i) /\ Depth(i) = 3

-----------------------------------------------------------------------------
(* C3 *)

\* C3: any two nodes at the same depth have their labels starting at the
\* same column of their lines.
C3_SameDepthAlignment ==
    \A i, j \in LineIds :
        (Done(i) /\ Done(j) /\ Depth(i) = Depth(j)) =>
            log[i].label = log[j].label

\* two finished lines at depth 2, one behind a bar continuation and ending a
\* tee with children below it, the other behind a blank continuation
C3_Witness ==
    \E i, j \in LineIds :
        /\ Done(i) /\ Done(j) /\ Depth(i) = 2 /\ Depth(j) = 2
        /\ CharAt(i, log[i].rows[1]) = fmt.chars.vertical_line
        /\ CharAt(j, log[j].rows[1]) = fmt.chars.horizontal_space
        /\ has_children(log[i].node) /\ ~has_children(log[j].node)
        /\ LSC = 2 /\ HLC = 1

-----------------------------------------------------------------------------
(* C4 *)

\* how many times the character c occurs in the string str
Count(str, c) == Cardinality({ i \in 1..Len(str) : str[i] = c })

\* C4: a successful render has written exactly one terminated line per node:
\* the sink ends with a line terminator and holds as many line terminators
\* as the tree has nodes, one line having been begun for each.
C4_LineCount ==
    (Rendering /\ result = "ok") =>
        /\ Count(w, NL) = Size(Root)
        /\ Len(log) = Size(Root)
        /\ w[Len(w)] = NL

\* a successful render of a tree of at least four nodes, two of them leaves
\* under one parent
C4_Witness ==
    /\ Rendering /\ result = "ok" /\ Size(Root) >= 4
    /\ \E i \in LineIds : Len(log[i].node.children) >= 2

-----------------------------------------------------------------------------
(* C5 *)

\* the node of line i is the last element of its parent's child sequence
IsLastChild(i) ==
    LET path == log[i].path
    IN  path[Len(path)] = Len(NodeAt(Root, SubSeq(path, 1, Len(path) - 1)).children)

\* the character that leads the connector (innermost glyph group) of line i
Lead(i) == CharAt(i, log[i].rows[Depth(i)])

\* C5: the connector of a non-root node leads with right_facing_angle if and
\* only if the node is the last child of its parent, and with
\* right_facing_tee otherwise.
C5_LastChildMarking ==
    \A i \in LineIds : (Done(i) /\ Depth(i) > 0) =>
        /\ Len(log[i].rows) = Depth(i)
        /\ (Lead(i) = fmt.chars.right_facing_angle) <=> IsLastChild(i)
        /\ ~IsLastChild(i) => Lead(i) = fmt.chars.right_facing_tee

\* a parent with children of its own that is not a last child, and a last
\* child leaf two levels down, both written
C5_Witness ==
    \E i, j \in LineIds :
        /\ Done(i) /\ Done(j)
        /\ Depth(i) = 1 /\ ~IsLastChild(i) /\ has_children(log[i].node)
        /\ Depth(j) = 2 /\ IsLastChild(j)

-----------------------------------------------------------------------------
(* C6 *)

\* the column of the first thing written on line i after the prefix
FirstAfterPrefix(i) ==
    IF Depth(i) > 0 THEN log[i].rows[1]
    ELSE IF IsLeft THEN log[i].label - LSC - 1
    ELSE log[i].label

\* C6: with prefix_str Some(p) every line, the root line included, begins
\* with exactly p, written once, the glyphs (or the label) following it at
\* column length(p); with prefix_str None they start at column 0.
C6_PrefixPropagation ==
    \A i \in LineIds :
        /\ log[i].glyphs = PrefixLen
        /\ fmt.prefix_str # None =>
              Cols(i, 0, PrefixLen) = fmt.prefix_str[1]
        /\ Done(i) =>
              /\ FirstAfterPrefix(i) = PrefixLen
              /\ (Depth(i) = 0 /\ IsLeft) =>
                    CharAt(i, PrefixLen) = fmt.chars.down_facing_angle
              /\ Depth(i) > 0 =>
                    CharAt(i, PrefixLen) \in
                        { fmt.chars.right_facing_tee, fmt.chars.right_facing_angle,
                          fmt.chars.vertical_line, fmt.chars.horizontal_space }

\* a finished line at depth 2 of a render with a prefix
C6_Witness ==
    /\ Rendering /\ fmt.prefix_str # None
    /\ \E i \in LineIds : Done(i) /\ Depth(i) = 2

-----------------------------------------------------------------------------
(* The lines of a finished render *)

\* the terminated lines of str, without their terminators
SplitLines(str) ==
    LET ends == { i \in 1..Len(str) : str[i] = NL }
        End(k) == CHOOSE e \in ends :
                     Cardinality({ i \in ends : i <= e }) = k
    IN [k \in 1..Cardinality(ends) |->
           SubSeq(str, IF k = 1 THEN 1 ELSE End(k - 1) + 1, End(k) - 1)]

OutputLines == SplitLines(w)

RenderedOk(t, f) == Rendering /\ result = "ok" /\ Root = t /\ fmt = f

-----------------------------------------------------------------------------
(* C7 *)

\* the lines C7 gives, continuation columns 3 wide (lines 7 to 9 are the
\* ones it elides, written the same way)
ClaimedAsciiBelow ==
    <<
      <<"r", "o", "o", "t">>,
      <<"+", "-", "-", " ", "U", "n", "c", "l", "e">>,
      <<"+", "-", "-", " ", "P", "a", "r", "e", "n", "t">>,
      <<"|", " ", " ", "+", "-", "-", " ", "C", "h", "i", "l", "d", " ", "1">>,
      <<"|", " ", " ", "|", " ", " ", "'", "-", "-", " ", "G", "r", "a",
        "n", "d", " ", "C", "h", "i", "l", "d", " ", "1">>,
      <<"|", " ", " ", "'", "-", "-", " ", "C", "h", "i", "l", "d", " ", "2">>,
      <<"|", " ", " ", " ", " ", " ", "'", "-", "-", " ", "G", "r", "a",
        "n", "d", " ", "C", "h", "i", "l", "d", " ", "2">>,
      <<"|", " ", " ", " ", " ", " ", " ", " ", " ", "'", "-", "-", " ",
        "G", "r", "e", "a", "t", " ", "G", "r", "a", "n", "d", " ", "C",
        "h", "i", "l", "d", " ", "2">>,
      <<"|", " ", " ", " ", " ", " ", " ", " ", " ", " ", " ", " ", "'",
        "-", "-", " ", "G", "r", "e", "a", "t", " ", "G", "r", "e", "a",
        "t", " ", "G", "r", "a", "n", "d", " ", "C", "h", "i", "l", "d",
        " ", "2">>,
      <<"'", "-", "-", " ", "A", "u", "n", "t">>,
      <<" ", " ", " ", "'", "-", "-", " ", "C", "h", "i", "l", "d", " ", "3">>
    >>

\* the lines test_ascii_below_tree of tests/test_top_down_trees.rs expects
TestedAsciiBelow ==
    <<
      <<"r", "o", "o", "t">>,
      <<"+", "-", "-", " ", "U", "n", "c", "l", "e">>,
      <<"+", "-", "-", " ", "P", "a", "r", "e", "n", "t">>,
      <<"|", " ", " ", " ", "+", "-", "-", " ", "C", "h", "i", "l", "d",
        " ", "1">>,
      <<"|", " ", " ", " ", "|", " ", " ", " ", "'", "-", "-", " ", "G",
        "r", "a", "n", "d", " ", "C", "h", "i", "l", "d", " ", "1">>,
      <<"|", " ", " ", " ", "'", "-", "-", " ", "C", "h", "i", "l", "d",
        " ", "2">>,
      <<"|", " ", " ", " ", " ", " ", " ", " ", "'", "-", "-", " ", "G",
        "r", "a", "n", "d", " ", "C", "h", "i", "l", "d", " ", "2">>,
      <<"|", " ", " ", " ", " ", " ", " ", " ", " ", " ", " ", " ", "'",
        "-", "-", " ", "G", "r", "e", "a", "t", " ", "G", "r", "a", "n",
        "d", " ", "C", "h", "i", "l", "d", " ", "2">>,
      <<"|", " ", " ", " ", " ", " ", " ", " ", " ", " ", " ", " ", " ",
        " ", " ", " ", "'", "-", "-", " ", "G", "r", "e", "a", "t", " ",
        "G", "r", "e", "a", "t", " ", "G", "r", "a", "n", "d", " ", "C",
        "h", "i", "l", "d", " ", "2">>,
      <<"'", "-", "-", " ", "A", "u", "n", "t">>,
      <<" ", " ", " ", " ", "'", "-", "-", " ", "C", "h", "i", "l", "d",
        " ", "3">>
    >>

-----------------------------------------------------------------------------
(* C9 *)

\* the lines test_spacing_in_tree and the crate documentation give
DocumentedSpacing ==
    <<
      <<".", ".", " ", "U+250C", ".", ".", "r", "o", "o", "t">>,
      <<".", ".", " ", "U+251C", "U+2500", "U+2500", "U+2500", "U+2500",
        "U+2500", "U+2500", ".", ".", "U", "n", "c", "l", "e">>,
      <<".", ".", " ", "U+251C", "U+2500", "U+2500", "U+2500", "U+2500",
        "U+2500", "U+252C", ".", ".", "P", "a", "r", "e", "n", "t">>,
      <<".", ".", " ", "U+2502", "#", "#", "#", "#", "#", "U+251C",
        "U+2500", "U+2500", "U+2500", "U+2500", "U+2500", "U+252C", ".",
        ".", "C", "h", "i", "l", "d", " ", "1">>,
      <<".", ".", " ", "U+2502", "#", "#", "#", "#", "#", "U+2502", "#",
        "#", "#", "#", "#", "U+2514", "U+2500", "U+2500", "U+2500",
        "U+2500", "U+2500", "U+2500", ".", ".", "G", "r", "a", "n", "d",
        " ", "C", "h", "i", "l", "d", " ", "1">>,
      <<".", ".", " ", "U+2502", "#", "#", "#", "#", "#", "U+2514",
        "U+2500", "U+2500", "U+2500", "U+2500", "U+2500", "U+252C", ".",
        ".", "C", "h", "i", "l", "d", " ", "2">>,
      <<".", ".", " ", "U+2502", "#", "#", "#", "#", "#", "#", "#", "#",
        "#", "#", "#", "U+2514", "U+2500", "U+2500", "U+2500", "U+2500",
        "U+2500", "U+252C", ".", ".", "G", "r", "a", "n", "d", " ", "C",
        "h", "i", "l", "d", " ", "2">>,
      <<".", ".", " ", "U+2502", "#", "#", "#", "#", "#", "#", "#", "#",
        "#", "#", "#", "#", "#", "#", "#", "#", "#", "U+2514", "U+2500",
        "U+2500", "U+2500", "U+2500", "U+2500", "U+252C", ".", ".", "G",
        "r", "e", "a", "t", " ", "G", "r", "a", "n", "d", " ", "C", "h",
        "i", "l", "d", " ", "2">>,
      <<".", ".", " ", "U+2502", "#", "#", "#", "#", "#", "#", "#", "#",
        "#", "#", "#", "#", "#", "#", "#", "#", "#", "#", "#", "#", "#",
        "#", "#", "U+2514", "U+2500", "U+2500", "U+2500", "U+2500",
        "U+2500", "U+2500", ".", ".", "G", "r", "e", "a", "t", " ", "G",
        "r", "e", "a", "t", " ", "G", "r", "a", "n", "d", " ", "C", "h",
        "i", "l", "d", " ", "2">>,
      <<".", ".", " ", "U+2514", "U+2500", "U+2500", "U+2500", "U+2500",
        "U+2500", "U+252C", ".", ".", "A", "u", "n", "t">>,
      <<".", ".", " ", "#", "#", "#", "#", "#", "#", "U+2514", "U+2500",
        "U+2500", "U+2500", "U+2500", "U+2500", "U+2500", ".", ".", "C",
        "h", "i", "l", "d", " ", "3">>
    >>

\* C9: the example tree under the Left anchor, box-drawing glyphs,
\* horizontal_space '#', horizontal_line_count 5, label_space_char '.',
\* label_space_count 2 and prefix '.. ' renders as the 11 documented lines.
C9_SpacingScenario ==
    RenderedOk(make_tree, spacing_format) =>
        OutputLines = DocumentedSpacing

C9_Witness == RenderedOk(make_tree, spacing_format)

-----------------------------------------------------------------------------
(* C8 *)

\* C8: with the Below anchor, the lead connector glyph of every non-root
\* node is in the column of the first character of its parent's label.
C8_BelowAnchoring ==
    (Rendering /\ IsBelow) =>
        \A i \in LineIds : (Done(i) /\ Depth(i) > 0) =>
            log[i].rows[Depth(i)] = log[ParentLine(i)].label

-----------------------------------------------------------------------------
(* C10 *)

\* the glyph written immediately before the label spacing of line i
AnchorGlyph(i) == CharAt(i, log[i].label - LSC - 1)

\* the text of line i from the start of its connector to its label
Connector(i) == Cols(i, log[i].rows[Depth(i)], log[i].label)

\* C10: with the Left anchor the glyph before the label spacing is
\* down_facing_angle for the root, down_facing_tee for a non-root node with
\* children and horizontal_line for a non-root leaf; with the Below anchor
\* the root line is prefix + label only and a connector is the lead glyph,
\* horizontal_line_count horizontal_line and the label spacing.
C10_AnchorGlyph ==
    \A i \in LineIds : Done(i) =>
        /\ Cols(i, log[i].label, log[i].label + Len(log[i].node.data))
              = log[i].node.data
        /\ IsLeft =>
              /\ Cols(i, log[i].label - LSC, log[i].label)
                    = char_repeat(fmt.chars.label_space_char, LSC)
              /\ AnchorGlyph(i) =
                    IF Depth(i) = 0 THEN fmt.chars.down_facing_angle
                    ELSE IF has_children(log[i].node)
                         THEN fmt.chars.down_facing_tee
                         ELSE fmt.chars.horizontal_line
              /\ Depth(i) > 0 =>
                    log[i].label - LSC - 1 = log[i].rows[Depth(i)] + 1 + HLC
        /\ IsBelow =>
              /\ Depth(i) = 0 => log[i].label = PrefixLen
              /\ Depth(i) > 0 =>
                    Connector(i) =
                        << IF IsLastChild(i) THEN fmt.chars.right_facing_angle
                           ELSE fmt.chars.right_facing_tee >>
                        \o char_repeat(fmt.chars.horizontal_line, HLC)
                        \o char_repeat(fmt.chars.label_space_char, LSC)

\* under the Left anchor with no horizontal line run: a root, an inner node
\* and a leaf have all been written
C10_Witness ==
    /\ Rendering /\ IsLeft /\ HLC = 0 /\ LSC > 0
    /\ \E i, j \in LineIds :
          /\ Done(i) /\ Depth(i) > 0 /\ has_children(log[i].node)
          /\ Done(j) /\ Depth(j) > 0 /\ ~has_children(log[j].node)

-----------------------------------------------------------------------------
(* C11 *)

IsPrefix(a, b) == Len(a) <= Len(b) /\ SubSeq(b, 1, Len(a)) = a

\* after a failed write: the sink holds what it held at the failure, every
\* call on the stack is returning that error and none has a write to make
AfterFailure ==
    failure # NoFailure =>
        /\ w = failure.after
        /\ IsPrefix(failure.before, w)
        /\ PendingWrite = <<>>
        /\ \/ call # <<>> /\ Top.pc = "err" /\ Top.e = failure.err
                          /\ result = "none"
           \/ call = <<>> /\ result = failure.err

\* C11: when a write to the sink fails, the render returns that same error
\* at once (every step after the failure pops one call, none writes), what
\* was written before the failure stays in the sink, and a failed write is
\* the only way a render returns an error.
C11_SinkFailure ==
    /\ [](/\ AfterFailure
          /\ (result \in Errors) => failure # NoFailure
          /\ (Rendering /\ call = <<>> /\ failure = NoFailure) => result = "ok")
    /\ [][(failure # NoFailure /\ call # <<>>) =>
             (Len(call') = Len(call) - 1 /\ w' = w)]_vars

\* a render that failed two levels down, part of the failing write having
\* gone through, with lines written before it and nodes never reached
C11_Witness ==
    /\ failure # NoFailure /\ call = <<>> /\ result = failure.err
    /\ failure.after # failure.before
    /\ Len(log) >= 3 /\ Len(log) < Size(Root)
    /\ Len(log[Len(log)].path) = 2

-----------------------------------------------------------------------------
(* C12 *)

RECURSIVE AllPaths(_)
\* the paths (child indices from the root) of all nodes of the tree at node
AllPaths(node) ==
    { <<>> } \cup
    UNION { { <<k>> \o p : p \in AllPaths(node.children[k]) } :
            k \in 1..Len(node.children) }

\* every node of the tree has had its line begun, and none twice
VisitedOnce ==
    /\ Len(log) = Size(Root)
    /\ { log[i].path : i \in LineIds } = AllPaths(Root)
    /\ \A i \in LineIds : log[i].node = NodeAt(Root, log[i].path)

\* C12: a render to a sink that never fails eventually returns success,
\* having visited every node exactly once.
C12_Termination ==
    (Rendering /\ result = "none") ~> (result = "ok" /\ VisitedOnce)

\* a finished render of the example tree (eleven nodes, five levels)
C12_Witness ==
    /\ Rendering /\ result = "ok" /\ VisitedOnce
    /\ Size(Root) = 11 /\ \E i \in LineIds : Depth(i) = 5

-----------------------------------------------------------------------------
(* C13 *)

\* a finished render of the node and formatting of the kept output has
\* produced the same characters
SameOutput ==
    (result = "ok" /\ prev # NoPrev /\ prev.node = Root /\ prev.fmt = fmt) =>
        w = prev.out

\* C13: rendering the same tree with the same formatting twice gives the
\* same output, and no step of a render changes the tree or the formatting,
\* so the second render starts from the inputs of the first.
C13_Determinism ==
    [][ /\ (Rendering \/ Rendering') => nodes' = nodes
        /\ (Rendering /\ Rendering') => (fmt' = fmt /\ tree' = tree)
        /\ prev' # NoPrev => nodes'[prev'.slot] = prev'.node
        /\ SameOutput' ]_vars

\* the second render of a tree of depth 2 has finished, the output of the
\* first one kept
C13_Witness ==
    /\ result = "ok" /\ prev # NoPrev /\ prev.node = Root /\ prev.fmt = fmt
    /\ \E i \in LineIds : Depth(i) = 2
    /\ Len(w) > 0

-----------------------------------------------------------------------------
(* C14 *)

RECURSIVE PushAll(_, _)
\* node after push(x) for each x of xs, in order
PushAll(node, xs) ==
    IF xs = <<>> THEN node
    ELSE PushAll(push(node, Head(xs)), Tail(xs))

\* the three ways to build a node with data d over the leaves xs agree
SameConstruction(d, xs) ==
    LET n == with_children(d, xs)
    IN  /\ n.data = d
        /\ Len(n.children) = Len(xs)
        /\ \A i \in 1..Len(xs) : n.children[i] = [data |-> xs[i], children |-> <<>>]
        /\ PushAll(TreeNode_new(d), xs) = n
        /\ extend(TreeNode_new(d), xs) = n

\* the data of the children of node, in order
ChildData(node) == [i \in 1..Len(node.children) |-> node.children[i].data]

\* C14: with_children(d, xs) equals new(d) followed by push(x) for each x of
\* xs in order, and new(d) followed by extend(xs); new(d) and From(d) both
\* give a node with data d and no children.  Checked for every d and xs of
\* the input sets and for the data and children of every node built so far.
C14_ConstructionEquivalence ==
    /\ \A d \in Labels :
          /\ TreeNode_new(d) = [data |-> d, children |-> <<>>]
          /\ TreeNode_from(d) = [data |-> d, children |-> <<>>]
          /\ \A xs \in Iters : SameConstruction(d, xs)
    /\ \A s \in Slots : nodes[s] # NoNode =>
          /\ SameConstruction(nodes[s].data, ChildData(nodes[s]))
          /\ (\A i \in 1..Len(nodes[s].children) :
                 ~has_children(nodes[s].children[i])) =>
                nodes[s] = PushAll(TreeNode_new(nodes[s].data), ChildData(nodes[s]))

\* a node with three leaf children of differing data has been built
C14_Witness ==
    \E s \in Slots :
        /\ nodes[s] # NoNode /\ Len(nodes[s].children) = 3
        /\ \A i \in 1..3 : ~has_children(nodes[s].children[i])
        /\ nodes[s].children[1].data # nodes[s].children[3].data

-----------------------------------------------------------------------------
(* C15 *)

Bit(b) == IF b THEN 1 ELSE 0

\* C15: with horizontal_line_count = 0 and/or label_space_count = 0 every
\* render succeeds; with label_space_count = 0 the label directly follows
\* the connector (or the root's anchor glyph, or the prefix), no
\* label_space_char in between; with horizontal_line_count = 0 no run of
\* horizontal_line or horizontal_space is written: a connector is its lead
\* glyph, the anchor glyph under Left and the label spacing, a continuation
\* is its lead glyph (and the one horizontal_space the Below anchor adds when
\* label_space_count > 0).
C15_ZeroCounts ==
    (Rendering /\ (HLC = 0 \/ LSC = 0)) =>
        /\ result \in {"none", "ok"}
        /\ call = <<>> => result = "ok"
        /\ \A i \in LineIds : Done(i) =>
              /\ (LSC = 0 /\ Depth(i) = 0) =>
                    /\ log[i].label = PrefixLen + Bit(IsLeft)
                    /\ IsLeft => CharAt(i, log[i].label - 1)
                                    = fmt.chars.down_facing_angle
              /\ (LSC = 0 /\ Depth(i) > 0) =>
                    /\ log[i].label = log[i].rows[Depth(i)] + 1 + HLC + Bit(IsLeft)
                    /\ CharAt(i, log[i].label - 1) =
                          IF IsLeft THEN (IF has_children(log[i].node)
                                          THEN fmt.chars.down_facing_tee
                                          ELSE fmt.chars.horizontal_line)
                          ELSE IF HLC > 0 THEN fmt.chars.horizontal_line
                          ELSE Lead(i)
                    /\ \A r \in 1..(Depth(i) - 1) : RowWidth(i, r) = 1 + HLC
              /\ (HLC = 0 /\ Depth(i) > 0) =>
                    /\ Connector(i) =
                          << Lead(i) >>
                          \o (IF IsLeft
                              THEN << IF has_children(log[i].node)
                                      THEN fmt.chars.down_facing_tee
                                      ELSE fmt.chars.horizontal_line >>
                              ELSE << >>)
                          \o [k \in 1..LSC |-> fmt.chars.label_space_char]
                    /\ \A r \in 1..(Depth(i) - 1) :
                          /\ RowWidth(i, r) = 1 + Bit(IsBelow /\ LSC > 0)
                          /\ Cols(i, log[i].rows[r] + 1, RowEnd(i, r))
                                = [k \in 1..Bit(IsBelow /\ LSC > 0) |->
                                      fmt.chars.horizontal_space]

\* a finished render with both counts 0 that wrote a line at depth 3
C15_Witness ==
    /\ Rendering /\ HLC = 0 /\ LSC = 0 /\ result = "ok"
    /\ \E i \in LineIds : Done(i) /\ Depth(i) = 3

-----------------------------------------------------------------------------
(* C16 *)

\* the glyph group of row r of line i
Group(i, r) == Cols(i, log[i].rows[r], RowEnd(i, r))

\* horizontal_space or vertical_line by the row's remaining count, followed
\* by horizontal_line_count horizontal_space
ClaimedContinuation(i, r) ==
    << IF log[i].stack[r] = 1 THEN fmt.chars.horizontal_space
                              ELSE fmt.chars.vertical_line >>
    \o [k \in 1..HLC |-> fmt.chars.horizontal_space]

-----------------------------------------------------------------------------
(* C17 *)

\* the paths of the nodes whose line has been begun
Emitted == { log[i].path : i \in LineIds }

\* the ancestor (or self) at depth j of the node at path p
AncestorAt(p, j) == NodeAt(Root, SubSeq(p, 1, j))

\* the children of the depth-(i - 1) ancestor of the node at path p that
\* were not emitted before its depth-i ancestor-or-self, counting that one
NotEmittedBefore(p, i) ==
    LET n == Len(AncestorAt(p, i - 1).children)
    IN n - Cardinality({ c \in 1..n :
                            /\ c # p[i]
                            /\ Append(SubSeq(p, 1, i - 1), c) \in Emitted })

\* the stack of one call of write_tree_inner is as C17 states
StackOf(f) ==
    LET stack == f.remaining_children_stack
        p == f.path
    IN /\ f.node = NodeAt(Root, p)
       /\ Len(stack) = Len(p)
       /\ (stack = <<>>) <=> (f.node = Root /\ p = <<>>)
       /\ \A i \in 1..Len(stack) :
             /\ stack[i] = NotEmittedBefore(p, i)
             /\ stack[i] = Len(AncestorAt(p, i - 1).children) - p[i] + 1
             /\ stack[i] >= 1
             /\ stack[i] <= Len(AncestorAt(p, i - 1).children)
       /\ stack # <<>> =>
             (stack[Len(stack)] = 1
                 <=> p[Len(p)] = Len(AncestorAt(p, Len(p) - 1).children))

\* C17: at every call of write_tree_inner for a node at depth d the stack
\* has d entries (none exactly for the root); entry i is the number of
\* children of the depth-(i - 1) ancestor not emitted before the depth-i
\* ancestor-or-self, counting that one; every entry is at least 1 and at
\* most the ancestor's child count; the innermost entry is 1 exactly when
\* the node is its parent's last child.  The stack of a call never changes
\* while the call is active, so a caller's stack is the same after its
\* children have been rendered.
C17_RemainingStack ==
    /\ [](\A k \in 1..Len(call) :
             /\ Len(call[k].path) = k - 1
             /\ StackOf(call[k]))
    /\ [][\A k \in 1..Len(call) : k <= Len(call') =>
             call'[k].remaining_children_stack
                = call[k].remaining_children_stack]_vars

\* a call at depth 3 whose stack holds a 1 and a larger count, made by a
\* caller that has already had a child rendered
C17_Witness ==
    /\ Len(call) = 4
    /\ \E i, j \in 1..3 : /\ Top.remaining_children_stack[i] = 1
                          /\ Top.remaining_children_stack[j] > 1
    /\ \E k \in 1..3 : call[k].next > 2

-----------------------------------------------------------------------------
(* C18 *)

\* the depth-r ancestor of the node of line i is the last child of its parent
AncestorIsLast(i, r) ==
    log[i].path[r] = Len(AncestorAt(log[i].path, r - 1).children)

\* line m is the line of a proper descendant of the node of line i
Below(i, m) ==
    /\ Len(log[i].path) < Len(log[m].path)
    /\ IsPrefix(log[i].path, log[m].path)

\* line j is the line of the next sibling of the node of line i
NextSibling(i, j) ==
    /\ Depth(i) >= 1 /\ Depth(j) = Depth(i)
    /\ SubSeq(log[j].path, 1, Depth(i) - 1)
          = SubSeq(log[i].path, 1, Depth(i) - 1)
    /\ log[j].path[Depth(i)] = log[i].path[Depth(i)] + 1

\* C18: on the line of any node, the group of a non-innermost row starts
\* with vertical_line if and only if the node's ancestor at that level is
\* not the last child of its parent, and with horizontal_space otherwise.
\* Hence the column of a non-last child's connector holds vertical_line on
\* every line down to the line of its next sibling, whose connector is in
\* the same column, and the column of a last child's connector holds
\* horizontal_space on every line of its subtree.  (The two glyphs are told
\* apart where the FormatCharacters gives them different characters.)
C18_BarContinuity ==
    /\ \A i \in LineIds : Done(i) =>
          \A r \in 1..(Depth(i) - 1) :
              /\ CharAt(i, log[i].rows[r]) =
                    IF AncestorIsLast(i, r) THEN fmt.chars.horizontal_space
                                            ELSE fmt.chars.vertical_line
              /\ fmt.chars.vertical_line # fmt.chars.horizontal_space =>
                    /\ CharAt(i, log[i].rows[r]) = fmt.chars.vertical_line
                          <=> ~AncestorIsLast(i, r)
                    /\ CharAt(i, log[i].rows[r]) = fmt.chars.horizontal_space
                          <=> AncestorIsLast(i, r)
    /\ \A i, m \in LineIds : (Done(m) /\ Below(i, m) /\ Depth(i) >= 1) =>
          /\ log[m].rows[Depth(i)] = log[i].rows[Depth(i)]
          /\ CharAt(m, log[i].rows[Depth(i)]) =
                IF IsLastChild(i) THEN fmt.chars.horizontal_space
                                  ELSE fmt.chars.vertical_line
    /\ \A i, j \in LineIds : (Done(j) /\ NextSibling(i, j)) =>
          /\ i < j
          /\ \A m \in (i + 1)..(j - 1) : Below(i, m)
          /\ log[j].rows[Depth(j)] = log[i].rows[Depth(i)]

\* a non-last child with a subtree of two levels, followed by its next
\* sibling, all written
C18_Witness ==
    /\ Rendering
    /\ \E i, j \in LineIds :
          /\ Done(j) /\ NextSibling(i, j) /\ j >= i + 3
          /\ \E m \in (i + 1)..(j - 1) : Depth(m) = Depth(i) + 2

-----------------------------------------------------------------------------
(* C19 *)

RECURSIVE PreOrder(_), PreOrderFrom(_, _)
\* the paths of the nodes of the tree at node in depth-first pre-order: the
\* node, then the subtrees of its children in insertion order
PreOrder(node) == << <<>> >> \o PreOrderFrom(node, 1)

\* the pre-order paths of the subtrees of the children k, k + 1, ...
PreOrderFrom(node, k) ==
    IF k > Len(node.children) THEN <<>>
    ELSE LET sub == PreOrder(node.children[k])
         IN [j \in 1..Len(sub) |-> <<k>> \o sub[j]] \o PreOrderFrom(node, k + 1)

\* C19: the lines are written in depth-first pre-order: the k-th line is
\* the line of the k-th node in pre-order and ends with that node's label;
\* a node's line comes before the lines of its descendants, the lines of a
\* subtree are contiguous, and the subtrees of a node's children come in the
\* children's insertion order; a finished render has written every node.
C19_EmissionOrder ==
    Rendering =>
      LET order == PreOrder(Root)
          lines == SplitLines(w)
      IN
        /\ Len(log) <= Len(order)
        /\ \A k \in LineIds :
              /\ log[k].path = order[k]
              /\ log[k].node = NodeAt(Root, order[k])
              /\ k < Len(log) => Done(k) /\ log[k].start < log[k + 1].start
        /\ Len(lines) = Cardinality({ k \in LineIds : Done(k) })
        /\ \A k \in 1..Len(lines) :
              SubSeq(lines[k], log[k].label + 1, Len(lines[k]))
                 = label(NodeAt(Root, order[k]))
        /\ \A i, m \in LineIds : Below(i, m) => i < m
        /\ \A i, m, n \in LineIds :
              (i < m /\ m < n /\ Below(i, n)) => Below(i, m)
        /\ \A i, j \in LineIds :
              ( /\ Depth(i) >= 1 /\ Depth(j) >= Depth(i)
                /\ SubSeq(log[i].path, 1, Depth(i) - 1)
                      = SubSeq(log[j].path, 1, Depth(i) - 1)
                /\ log[i].path[Depth(i)] < log[j].path[Depth(i)] ) => i < j
        /\ result = "ok" => Len(log) = Len(order)

\* a finished render of a tree in which a node with a subtree of two levels
\* is followed by a sibling
C19_Witness ==
    /\ Rendering /\ result = "ok"
    /\ \E i, j \in LineIds :
          /\ NextSibling(i, j) /\ j >= i + 3
          /\ \E m \in (i + 1)..(j - 1) : Depth(m) = Depth(i) + 2

-----------------------------------------------------------------------------
(* C20 *)

Leaf(d) == [data |-> d, children |-> <<>>]

\* the leaves of the items of xs, in iteration order
Leaves(xs) == [i \in 1..Len(xs) |-> Leaf(xs[i])]

\* push, push_node and extend on node keep its data and children and put
\* the new items after them, in call and iteration order
AppendsTo(node) ==
    /\ \A d \in Labels :
          /\ push(node, d) =
                [data |-> node.data, children |-> node.children \o << Leaf(d) >>]
          /\ \A xs \in Iters :
                /\ extend(push(node, d), xs) =
                      [data |-> node.data,
                       children |-> node.children \o << Leaf(d) >> \o Leaves(xs)]
                /\ push(extend(node, xs), d) =
                      [data |-> node.data,
                       children |-> node.children \o Leaves(xs) \o << Leaf(d) >>]
    /\ \A xs \in Iters :
          extend(node, xs) =
             [data |-> node.data, children |-> node.children \o Leaves(xs)]
    /\ \A t \in Slots : nodes[t] # NoNode =>
          /\ push_node(node, nodes[t]) =
                [data |-> node.data,
                 children |-> node.children \o << nodes[t] >>]
          /\ \A xs \in Iters :
                extend(push_node(node, nodes[t]), xs) =
                   [data |-> node.data,
                    children |-> node.children \o << nodes[t] >> \o Leaves(xs)]

\* the slots whose node is another node after the step
Receivers ==
    { s \in Slots : nodes[s] # NoNode /\ nodes'[s] # NoNode /\ nodes'[s] # nodes[s] }

\* the children the step has put after those node s had
Appended(s) ==
    SubSeq(nodes'[s].children, Len(nodes[s].children) + 1, Len(nodes'[s].children))

\* one step of construction: at most one node, the receiver, is another
\* node afterwards; it has the same data, its children as before followed by
\* new ones; any other node is as before, or has been moved, whole, to be
\* the child appended
AppendOnlyStep ==
    /\ Cardinality(Receivers) <= 1
    /\ \A s \in Receivers :
          /\ nodes'[s].data = nodes[s].data
          /\ IsPrefix(nodes[s].children, nodes'[s].children)
          /\ Len(nodes'[s].children) > Len(nodes[s].children)
          /\ \A t \in Slots \ {s} :
                \/ nodes'[t] = nodes[t]
                \/ /\ nodes[t] # NoNode /\ nodes'[t] = NoNode
                   /\ Appended(s) = << nodes[t] >>
    /\ \A t \in Slots : (nodes[t] # NoNode /\ nodes'[t] = NoNode) =>
          \E s \in Slots \ {t} :
             /\ nodes'[s] # NoNode
             /\ \E k \in 1..Len(nodes'[s].children) :
                   nodes'[s].children[k] = nodes[t]

\* C20: push, push_node and extend leave the receiver's data unchanged and
\* its previous children an unchanged prefix of its new children, with the
\* appended items after them in call and iteration order; no step changes a
\* node other than the receiver (a child given to push_node is moved, whole,
\* into the receiver).
C20_AppendOnly ==
    /\ [](\A s \in Slots : nodes[s] # NoNode => AppendsTo(nodes[s]))
    /\ [][AppendOnlyStep]_vars

\* a node whose first child has a child of its own, moved in whole, and
\* whose last child is a leaf put after it
C20_Witness ==
    \E s \in Slots :
        /\ nodes[s] # NoNode /\ Len(nodes[s].children) >= 2
        /\ has_children(nodes[s].children[1])
        /\ ~has_children(nodes[s].children[Len(nodes[s].children)])

====
